---------------------------- MODULE Spec2Model ----------------------------
(***************************************************************************)
(* Model of the data aggregation and statistics engine of the competitive  *)
(* pricing dashboard (src/src/lib/data.ts) and of the filter state of the   *)
(* dashboard (src/src/components/filters.tsx, src/src/app/page.tsx).        *)
(*                                                                         *)
(* The engine is a set of pure functions; each is an operator here, and    *)
(* each specification draws the inputs of some of them in its initial      *)
(* state and applies them in its actions.  The dashboard's filter state is *)
(* a state machine (SpecUI).                                               *)
(*                                                                         *)
(* JavaScript values: null is the string NULL, which is no member of any   *)
(* domain of strings of the model; numbers are integers, and a quotient    *)
(* that the code computes in floating point (a mean) is kept as the exact  *)
(* fraction [num, den].  A field of type number | null is the empty tuple  *)
(* (null) or the tuple of its number; a percentage is held in hundredths   *)
(* and an exchange rate in hundredths, so that 4.24 and -0.5 are integers. *)
(* parseData's outcome is the rows it returned or the fact that it threw.  *)
(***************************************************************************)
EXTENDS Integers, Sequences, FiniteSets, TLC

VARIABLES
  pc,           \* the function or handler that ran last ("ready": none yet)
  values,       \* the argument of calculateBoxplotStats
  stats,        \* the result of calculateBoxplotStats
  data,         \* the canonical rows (parseData's result, held by Dashboard)
  filters,      \* the FilterState
  priceType,    \* "recurrente" | "alta"
  currency,     \* "EUR" | "LOCAL"
  filtered,     \* the result of filterData
  options,      \* the result of getAvailableFilterOptions
  comparisons,  \* the result of generateBoxplotComparisons
  lastChange,   \* the arguments of the last handleFilterChange and the state before it
  rawData,      \* the records of the data file (the argument of parseData)
  parsed,       \* the outcome of parseData: the rows it returned, or that it threw
  countryInput, \* the argument of normalizeCountry
  normalized,   \* the result of normalizeCountry
  analysis,     \* the result of generatePromoAnalysis
  analysisByCompetitor  \* the result of generatePromoAnalysisByCompetitor

vars == <<pc, values, stats, data, filters, priceType, currency, filtered,
          options, comparisons, lastChange, rawData, parsed, countryInput, normalized,
          analysis, analysisByCompetitor>>

-----------------------------------------------------------------------------
(* Bounds *)

\* longest argument of calculateBoxplotStats
MaxLen == 4

\* most rows of a dataset
MaxRows == 2

-----------------------------------------------------------------------------
(* JavaScript values *)

\* null (and undefined): distinct from every string of the model
NULL == "<null>"

\* ToBoolean of a string | null: null and the empty string are falsy
Truthy(v) == v # NULL /\ v # ""

\* the strings of the model in the order of Array.prototype.sort() without a
\* comparator (UTF-16 code units), which is also their localeCompare order
StringOrder ==
  <<"", "ADT", "Argentina", "Basico", "Chile", "Hogares", "Negocios", "Premium",
    "Prosegur", "Todos">>

StringRank(s) == CHOOSE i \in 1..Len(StringOrder) : StringOrder[i] = s

StringLess(a, b) == StringRank(a) < StringRank(b)

RECURSIVE SumSeq(_)
SumSeq(s) == IF s = <<>> THEN 0 ELSE Head(s) + SumSeq(Tail(s))

\* Array.prototype.filter
FilterSeq(s, Keep(_)) == SelectSeq(s, Keep)

\* Array.prototype.map
MapSeq(s, F(_)) == [i \in 1..Len(s) |-> F(s[i])]

SeqRange(s) == {s[i] : i \in 1..Len(s)}

\* [...new Set(s)]: the distinct elements in order of first occurrence
RECURSIVE Distinct(_)
Distinct(s) ==
  IF s = <<>> THEN <<>>
  ELSE LET front == Distinct(SubSeq(s, 1, Len(s) - 1))
           last  == s[Len(s)]
       IN IF last \in SeqRange(front) THEN front ELSE Append(front, last)

\* [...new Set(s)].sort()
UniqueSorted(s) == SortSeq(Distinct(s), StringLess)

\* Math.floor(n * p) for p = percent / 100 (0.25, 0.5 and 0.75 are exact in
\* binary floating point, so the product is exact)
FloorTimes(n, percent) == (n * percent) \div 100

-----------------------------------------------------------------------------
(* calculateBoxplotStats *)

ZeroStats ==
  [min |-> 0, q1 |-> 0, median |-> 0, q3 |-> 0, max |-> 0,
   mean |-> [num |-> 0, den |-> 1], values |-> <<>>]

\* the statistics read from a sequence the code takes to be sorted
StatsOf(vals, sorted) ==
  LET n == Len(sorted)
      q1Index     == FloorTimes(n, 25)
      medianIndex == FloorTimes(n, 50)
      q3Index     == FloorTimes(n, 75)
  IN [min    |-> sorted[1],
      q1     |-> sorted[q1Index + 1],
      median |-> sorted[medianIndex + 1],
      q3     |-> sorted[q3Index + 1],
      max    |-> sorted[n],
      mean   |-> [num |-> SumSeq(vals), den |-> n],
      values |-> sorted]

calculateBoxplotStats_Unsorted(vals) ==
  IF Len(vals) = 0 THEN ZeroStats ELSE StatsOf(vals, vals)

calculateBoxplotStats_LowerMedian(vals) ==
  IF Len(vals) = 0 THEN ZeroStats
  ELSE LET s == StatsOf(vals, SortSeq(vals, <))
       IN [s EXCEPT !.median = s.values[((Len(vals) - 1) \div 2) + 1]]

\* calculateBoxplotStats dividing the empty sum by the length 0 (NaN, the
\* fraction 0/0) instead of returning the mean of the sentinel
calculateBoxplotStats_EmptyMeanNaN(vals) ==
  IF Len(vals) = 0 THEN [ZeroStats EXCEPT !.mean = [num |-> SumSeq(vals), den |-> Len(vals)]]
  ELSE StatsOf(vals, SortSeq(vals, <))

\* calculateBoxplotStats with the median of an even number of values taken
\* half-way between the two middle values
calculateBoxplotStats_InterpolatedMedian(vals) ==
  IF Len(vals) = 0 THEN ZeroStats
  ELSE LET s == StatsOf(vals, SortSeq(vals, <))
           n == Len(vals)
       IN IF n % 2 = 0
          THEN [s EXCEPT !.median = (s.values[n \div 2] + s.values[(n \div 2) + 1]) \div 2]
          ELSE s

calculateBoxplotStats(vals) ==
  IF Len(vals) = 0 THEN ZeroStats
  ELSE StatsOf(vals, SortSeq(vals, <))

-----------------------------------------------------------------------------
(* filterData *)

filterData_KitIgnored(rows, f) ==
  LET Keep(row) ==
        /\ ~(Truthy(f.pais) /\ row.pais # f.pais)
        /\ ~(Truthy(f.competidor) /\ row.competidor # f.competidor)
        /\ ~(Truthy(f.segmento) /\ row.segmento # f.segmento)
  IN FilterSeq(rows, Keep)

filterData_SkipsFirstRow(rows, f) ==
  LET Keep(row) ==
        /\ ~(Truthy(f.pais) /\ row.pais # f.pais)
        /\ ~(Truthy(f.competidor) /\ row.competidor # f.competidor)
        /\ ~(Truthy(f.segmento) /\ row.segmento # f.segmento)
        /\ ~(Truthy(f.tamanoKit) /\ row.tamanoKit # f.tamanoKit)
  IN IF rows = <<>> THEN <<>> ELSE FilterSeq(Tail(rows), Keep)

filterData(rows, f) ==
  LET Keep(row) ==
        /\ ~(Truthy(f.pais) /\ row.pais # f.pais)
        /\ ~(Truthy(f.competidor) /\ row.competidor # f.competidor)
        /\ ~(Truthy(f.segmento) /\ row.segmento # f.segmento)
        /\ ~(Truthy(f.tamanoKit) /\ row.tamanoKit # f.tamanoKit)
  IN FilterSeq(rows, Keep)

-----------------------------------------------------------------------------
(* getAvailableFilterOptions *)

Pais(row) == row.pais
Competidor(row) == row.competidor
Segmento(row) == row.segmento
TamanoKit(row) == row.tamanoKit

\* the three progressive filters of getAvailableFilterOptions
ByPais(rows, f) ==
  IF Truthy(f.pais)
  THEN LET Keep(d) == d.pais = f.pais IN FilterSeq(rows, Keep)
  ELSE rows

ByCompetidor(rows, f) ==
  IF Truthy(f.competidor)
  THEN LET Keep(d) == d.competidor = f.competidor IN FilterSeq(rows, Keep)
  ELSE rows

BySegmento(rows, f) ==
  IF Truthy(f.segmento)
  THEN LET Keep(d) == d.segmento = f.segmento IN FilterSeq(rows, Keep)
  ELSE rows

getAvailableFilterOptions_Flat(rows, f) ==
  [paises       |-> UniqueSorted(MapSeq(rows, Pais)),
   competidores |-> UniqueSorted(MapSeq(rows, Competidor)),
   segmentos    |-> UniqueSorted(MapSeq(rows, Segmento)),
   tamanos      |-> UniqueSorted(FilterSeq(MapSeq(rows, TamanoKit), Truthy))]

getAvailableFilterOptions_SegmentoEarly(rows, f) ==
  LET filtered1 == ByPais(rows, f)
      filtered2 == ByCompetidor(filtered1, f)
      filtered3 == BySegmento(filtered2, f)
  IN [paises       |-> UniqueSorted(MapSeq(rows, Pais)),
      competidores |-> UniqueSorted(MapSeq(filtered1, Competidor)),
      segmentos    |-> UniqueSorted(MapSeq(filtered1, Segmento)),
      tamanos      |-> UniqueSorted(FilterSeq(MapSeq(filtered3, TamanoKit), Truthy))]

\* each filter applied to the whole dataset instead of the narrowed one
getAvailableFilterOptions_FiltersData(rows, f) ==
  LET filtered1 == ByPais(rows, f)
      filtered2 == IF Truthy(f.competidor) THEN ByCompetidor(rows, f) ELSE filtered1
      filtered3 == IF Truthy(f.segmento) THEN BySegmento(rows, f) ELSE filtered2
  IN [paises       |-> UniqueSorted(MapSeq(rows, Pais)),
      competidores |-> UniqueSorted(MapSeq(filtered1, Competidor)),
      segmentos    |-> UniqueSorted(MapSeq(filtered2, Segmento)),
      tamanos      |-> UniqueSorted(FilterSeq(MapSeq(filtered3, TamanoKit), Truthy))]

getAvailableFilterOptions(rows, f) ==
  LET filtered1 == ByPais(rows, f)
      filtered2 == ByCompetidor(filtered1, f)
      filtered3 == BySegmento(filtered2, f)
  IN [paises       |-> UniqueSorted(MapSeq(rows, Pais)),
      competidores |-> UniqueSorted(MapSeq(filtered1, Competidor)),
      segmentos    |-> UniqueSorted(MapSeq(filtered2, Segmento)),
      tamanos      |-> UniqueSorted(FilterSeq(MapSeq(filtered3, TamanoKit), Truthy))]

-----------------------------------------------------------------------------
(* generateBoxplotComparisons *)

\* calculatePercentageDiff without its guard on a base mean of zero
calculatePercentageDiff_NoGuard(baseMean, promoMean) ==
  [num |-> (promoMean.num * baseMean.den - baseMean.num * promoMean.den) * 100,
   den |-> promoMean.den * baseMean.num]

\* the mean of a BoxplotStats is the fraction num/den; the result is a fraction
calculatePercentageDiff(baseMean, promoMean) ==
  IF baseMean.num = 0 THEN [num |-> 0, den |-> 1]
  ELSE [num |-> (promoMean.num * baseMean.den - baseMean.num * promoMean.den) * 100,
        den |-> promoMean.den * baseMean.num]

getPrice(row, field, cur) ==
  IF cur = "EUR"
  THEN CASE field = "recurrenteBase"  -> row.precioRecurrenteBase
         [] field = "recurrentePromo" -> row.precioRecurrentePromocional
         [] field = "altaBase"        -> row.precioAltaBase
         [] field = "altaPromo"       -> row.precioAltaPromocional
  ELSE CASE field = "recurrenteBase"  -> row.precioRecurrenteBaseLocal
         [] field = "recurrentePromo" -> row.precioRecurrentePromocionalLocal
         [] field = "altaBase"        -> row.precioAltaBaseLocal
         [] field = "altaPromo"       -> row.precioAltaPromocionalLocal

Positive(v) == v > 0

\* GroupComparison with the promo values of price type alta left unfiltered
GroupComparison_PromoUnfiltered(label, rows, ptype, cur) ==
  LET BasePrice(d)  == getPrice(d, IF ptype = "recurrente" THEN "recurrenteBase"
                                                           ELSE "altaBase", cur)
      PromoPrice(d) == getPrice(d, IF ptype = "recurrente" THEN "recurrentePromo"
                                                           ELSE "altaPromo", cur)
      baseValues  == MapSeq(rows, BasePrice)
      promoValues == MapSeq(rows, PromoPrice)
      filteredBaseValues  == IF ptype = "alta" THEN FilterSeq(baseValues, Positive)
                                               ELSE baseValues
      baseStats  == calculateBoxplotStats(filteredBaseValues)
      promoStats == calculateBoxplotStats(promoValues)
  IN IF Len(filteredBaseValues) = 0 THEN <<>>
     ELSE <<[label |-> label, base |-> baseStats, promo |-> promoStats,
             percentageDiff |-> calculatePercentageDiff(baseStats.mean, promoStats.mean)]>>

\* GroupComparison without the return on an empty base
GroupComparison_EmitsEmptyBase(label, rows, ptype, cur) ==
  LET BasePrice(d)  == getPrice(d, IF ptype = "recurrente" THEN "recurrenteBase"
                                                           ELSE "altaBase", cur)
      PromoPrice(d) == getPrice(d, IF ptype = "recurrente" THEN "recurrentePromo"
                                                           ELSE "altaPromo", cur)
      baseValues  == MapSeq(rows, BasePrice)
      promoValues == MapSeq(rows, PromoPrice)
      filteredBaseValues  == IF ptype = "alta" THEN FilterSeq(baseValues, Positive)
                                               ELSE baseValues
      filteredPromoValues == IF ptype = "alta" THEN FilterSeq(promoValues, Positive)
                                               ELSE promoValues
      baseStats  == calculateBoxplotStats(filteredBaseValues)
      promoStats == calculateBoxplotStats(filteredPromoValues)
  IN <<[label |-> label, base |-> baseStats, promo |-> promoStats,
        percentageDiff |-> calculatePercentageDiff(baseStats.mean, promoStats.mean)]>>

\* the body shared by the single group and by each competitor's group: the
\* comparison of `rows` under `label`, or no comparison when the base is empty
GroupComparison_JointFilter(label, rows, ptype, cur) ==
  LET BasePrice(d)  == getPrice(d, IF ptype = "recurrente" THEN "recurrenteBase"
                                                           ELSE "altaBase", cur)
      PromoPrice(d) == getPrice(d, IF ptype = "recurrente" THEN "recurrentePromo"
                                                           ELSE "altaPromo", cur)
      BothPositive(d) == BasePrice(d) > 0 /\ PromoPrice(d) > 0
      kept == IF ptype = "alta" THEN FilterSeq(rows, BothPositive) ELSE rows
      filteredBaseValues  == MapSeq(kept, BasePrice)
      filteredPromoValues == MapSeq(kept, PromoPrice)
      baseStats  == calculateBoxplotStats(filteredBaseValues)
      promoStats == calculateBoxplotStats(filteredPromoValues)
  IN IF Len(filteredBaseValues) = 0 THEN <<>>
     ELSE <<[label |-> label, base |-> baseStats, promo |-> promoStats,
             percentageDiff |-> calculatePercentageDiff(baseStats.mean, promoStats.mean)]>>

GroupComparison(label, rows, ptype, cur) ==
  LET BasePrice(d)  == getPrice(d, IF ptype = "recurrente" THEN "recurrenteBase"
                                                           ELSE "altaBase", cur)
      PromoPrice(d) == getPrice(d, IF ptype = "recurrente" THEN "recurrentePromo"
                                                           ELSE "altaPromo", cur)
      baseValues  == MapSeq(rows, BasePrice)
      promoValues == MapSeq(rows, PromoPrice)
      filteredBaseValues  == IF ptype = "alta" THEN FilterSeq(baseValues, Positive)
                                               ELSE baseValues
      filteredPromoValues == IF ptype = "alta" THEN FilterSeq(promoValues, Positive)
                                               ELSE promoValues
      baseStats  == calculateBoxplotStats(filteredBaseValues)
      promoStats == calculateBoxplotStats(filteredPromoValues)
  IN IF Len(filteredBaseValues) = 0 THEN <<>>
     ELSE <<[label |-> label, base |-> baseStats, promo |-> promoStats,
             percentageDiff |-> calculatePercentageDiff(baseStats.mean, promoStats.mean)]>>

\* groups.forEach in the Map's insertion order, pushing each group's comparison
RECURSIVE GroupComparisons(_, _, _, _)
GroupComparisons(keys, rows, ptype, cur) ==
  IF keys = <<>> THEN <<>>
  ELSE LET InGroup(d) == d.competidor = Head(keys)
       IN GroupComparison(Head(keys), FilterSeq(rows, InGroup), ptype, cur)
          \o GroupComparisons(Tail(keys), rows, ptype, cur)

LabelLess(a, b) == StringLess(a.label, b.label)

generateBoxplotComparisons_AlwaysGrouped(rows, f, ptype, cur) ==
  LET filteredData == filterData(rows, f)
  IN IF Len(filteredData) = 0 THEN <<>>
     ELSE SortSeq(GroupComparisons(Distinct(MapSeq(filteredData, Competidor)),
                                   filteredData, ptype, cur), LabelLess)

\* generateBoxplotComparisons sorting the labels in descending order
generateBoxplotComparisons_Descending(rows, f, ptype, cur) ==
  LET filteredData == filterData(rows, f)
      groupBy == IF Truthy(f.pais) THEN "competidor" ELSE "all"
      LabelGreater(a, b) == StringLess(b.label, a.label)
  IN IF Len(filteredData) = 0 THEN <<>>
     ELSE IF groupBy = "all" THEN GroupComparison("Todos", filteredData, ptype, cur)
     ELSE SortSeq(GroupComparisons(Distinct(MapSeq(filteredData, Competidor)),
                                   filteredData, ptype, cur), LabelGreater)

\* generateBoxplotComparisons without the final sort: the comparisons stay in
\* the insertion order of the Map
generateBoxplotComparisons_InsertionOrder(rows, f, ptype, cur) ==
  LET filteredData == filterData(rows, f)
      groupBy == IF Truthy(f.pais) THEN "competidor" ELSE "all"
  IN IF Len(filteredData) = 0 THEN <<>>
     ELSE IF groupBy = "all" THEN GroupComparison("Todos", filteredData, ptype, cur)
     ELSE GroupComparisons(Distinct(MapSeq(filteredData, Competidor)),
                           filteredData, ptype, cur)

generateBoxplotComparisons(rows, f, ptype, cur) ==
  LET filteredData == filterData(rows, f)
      groupBy == IF Truthy(f.pais) THEN "competidor" ELSE "all"
  IN IF Len(filteredData) = 0 THEN <<>>
     ELSE IF groupBy = "all" THEN GroupComparison("Todos", filteredData, ptype, cur)
     ELSE SortSeq(GroupComparisons(Distinct(MapSeq(filteredData, Competidor)),
                                   filteredData, ptype, cur), LabelLess)

-----------------------------------------------------------------------------
(* Filters: handleFilterChange, clearAllFilters *)

Keys == <<"pais", "competidor", "segmento", "tamanoKit">>

handleFilterChange_NoReset(f, key, value) == [f EXCEPT ![key] = value]

handleFilterChange_KitKept(f, key, value) ==
  LET newFilters == [f EXCEPT ![key] = value]
  IN IF key = "pais"
       THEN [newFilters EXCEPT !.competidor = NULL, !.segmento = NULL, !.tamanoKit = NULL]
     ELSE IF key = "competidor"
       THEN [newFilters EXCEPT !.segmento = NULL]
     ELSE newFilters

handleFilterChange(f, key, value) ==
  LET newFilters == [f EXCEPT ![key] = value]
  IN IF key = "pais"
       THEN [newFilters EXCEPT !.competidor = NULL, !.segmento = NULL, !.tamanoKit = NULL]
     ELSE IF key = "competidor"
       THEN [newFilters EXCEPT !.segmento = NULL, !.tamanoKit = NULL]
     ELSE IF key = "segmento"
       THEN [newFilters EXCEPT !.tamanoKit = NULL]
     ELSE newFilters

clearAllFilters == [pais |-> NULL, competidor |-> NULL, segmento |-> NULL, tamanoKit |-> NULL]

\* the <SelectItem> values of the <Select> of `key`
Offered(opts, key) ==
  CASE key = "pais"       -> SeqRange(opts.paises)
    [] key = "competidor" -> SeqRange(opts.competidores)
    [] key = "segmento"   -> SeqRange(opts.segmentos)
    [] key = "tamanoKit"  -> SeqRange(opts.tamanos)

-----------------------------------------------------------------------------
(* Strings and nullable numbers *)

\* a field of type number | null: null is the empty tuple, the number n is <<n>>
NullNumber == <<>>
Number(n) == <<n>>
ValueOf(v) == v[1]

Abs(n) == IF n < 0 THEN -n ELSE n

\* String.prototype.toLowerCase, toUpperCase and trim on the strings of the
\* model; a string that is not listed is its own image
toLowerCase(s) ==
  CASE s = "Sí"       -> "sí"
    [] s = " SI "     -> " si "
    [] s = "No"       -> "no"
    [] s = "HOGAR"    -> "hogar"
    [] s = "Negocios" -> "negocios"
    [] s = "Pyme"     -> "pyme"
    [] OTHER          -> s

toUpperCase(s) ==
  CASE s = "ar"          -> "AR"
    [] s = "Argentina"   -> "ARGENTINA"
    [] s = "Colombia"    -> "COLOMBIA"
    [] s = "Perú"        -> "PERÚ"
    [] s = "Uruguay"     -> "URUGUAY"
    [] s = "Paraguay"    -> "PARAGUAY"
    [] s = "Chile"       -> "CHILE"
    [] s = "Portugal"    -> "PORTUGAL"
    [] s = "Desconocido" -> "DESCONOCIDO"
    [] OTHER             -> s

trim(s) ==
  CASE s = " si " -> "si"
    [] s = " ar " -> "ar"
    [] s = "  "   -> ""
    [] OTHER      -> s

-----------------------------------------------------------------------------
(* parseData *)

\* the rates, in hundredths of a unit of local currency per EUR (424 is 4.24)
EXCHANGE_RATES ==
  ("ARG" :> 167600) @@ ("AR" :> 167600) @@ ("ARGENTINA" :> 167600) @@
  ("CO" :> 490000) @@ ("COL" :> 490000) @@ ("COLOMBIA" :> 490000) @@
  ("PE" :> 424) @@ ("PER" :> 424) @@ ("PERU" :> 424) @@
  ("UY" :> 4950) @@ ("URU" :> 4950) @@ ("URUGUAY" :> 4950) @@
  ("PY" :> 926800) @@ ("PAR" :> 926800) @@ ("PARAGUAY" :> 926800) @@
  ("CH" :> 108100) @@ ("CHL" :> 108100) @@ ("CHI" :> 108100) @@ ("CHILE" :> 108100) @@
  ("PT" :> 100) @@ ("POR" :> 100) @@ ("PORTUGAL" :> 100)

RECURSIVE GCD(_, _)
GCD(a, b) == IF b = 0 THEN a ELSE GCD(b, a % b)

\* the quotient n / d of a number by a positive number, as a fraction in lowest
\* terms
Quotient(n, d) ==
  LET g == GCD(Abs(n), d) IN [num |-> n \div g, den |-> d \div g]

\* price / rate as a fraction, the rate being EXCHANGE_RATES[country.toUpperCase()]
\* or, for a key the table does not hold, 1
convertToEUR(price, country) ==
  LET key  == toUpperCase(country)
      rate == IF key \in DOMAIN EXCHANGE_RATES THEN EXCHANGE_RATES[key] ELSE 100
  IN Quotient(price * 100, rate)

COUNTRY_NAMES ==
  ("ARG" :> "Argentina") @@ ("AR" :> "Argentina") @@ ("ARGENTINA" :> "Argentina") @@
  ("COL" :> "Colombia") @@ ("CO" :> "Colombia") @@ ("COLOMBIA" :> "Colombia") @@
  ("PER" :> "Perú") @@ ("PE" :> "Perú") @@ ("PERU" :> "Perú") @@
  ("URU" :> "Uruguay") @@ ("UY" :> "Uruguay") @@ ("URUGUAY" :> "Uruguay") @@
  ("PAR" :> "Paraguay") @@ ("PY" :> "Paraguay") @@ ("PARAGUAY" :> "Paraguay") @@
  ("CHL" :> "Chile") @@ ("CHI" :> "Chile") @@ ("CH" :> "Chile") @@ ("CHILE" :> "Chile") @@
  ("POR" :> "Portugal") @@ ("PT" :> "Portugal") @@ ("PORTUGAL" :> "Portugal")

\* normalizeCountry without the trim
normalizeCountry_NoTrim(c) ==
  IF ~Truthy(c) THEN "Desconocido"
  ELSE LET cleaned == toUpperCase(c)
       IN IF cleaned \in DOMAIN COUNTRY_NAMES THEN COUNTRY_NAMES[cleaned] ELSE cleaned

normalizeCountry(c) ==
  IF ~Truthy(c) THEN "Desconocido"
  ELSE LET cleaned == toUpperCase(trim(c))
       IN IF cleaned \in DOMAIN COUNTRY_NAMES THEN COUNTRY_NAMES[cleaned] ELSE cleaned

\* normalizeSegment of a string; of null it throws (see parseData)
normalizeSegment(segment) ==
  LET lower == trim(toLowerCase(segment))
  IN IF lower = "hogar" \/ lower = "hogares" THEN "Hogares"
     ELSE IF lower = "negocio" \/ lower = "negocios" THEN "Negocios"
     ELSE segment

\* the number a price field holds in a division: null converts to 0
ToNumber(v) == IF v = NullNumber THEN 0 ELSE ValueOf(v)

\* the canonical row of one record.  Of the six price fields, which the code
\* converts by one and the same expression, the recurring and the installation
\* base price are kept
ParseRow(row) ==
  LET pais == normalizeCountry(row.Pais)
      precioRecurrenteBaseLocal == row.PrecioRecurrenteBase
      montoPromoLocal           == row.MontoDeLaPromo
      precioAltaBaseLocal       == row.PrecioAltaBase
  IN [pais |-> pais,
      competidor |-> row.Competidor,
      segmento |-> normalizeSegment(row.Segmento),
      tamanoKit |-> IF Truthy(row.TamanoDelKit) THEN row.TamanoDelKit ELSE NULL,
      precioRecurrenteBase |-> convertToEUR(ToNumber(precioRecurrenteBaseLocal), pais),
      montoPromo |-> IF montoPromoLocal # NullNumber /\ ValueOf(montoPromoLocal) # 0
                     THEN Number(convertToEUR(ValueOf(montoPromoLocal), pais))
                     ELSE NullNumber,
      precioAltaBase |-> convertToEUR(ToNumber(precioAltaBaseLocal), pais),
      precioRecurrenteBaseLocal |-> precioRecurrenteBaseLocal,
      montoPromoLocal |-> montoPromoLocal,
      precioAltaBaseLocal |-> precioAltaBaseLocal,
      porcentajePromocionRecurrente |-> row.PorcentajeDePromocionRecurrente,
      porcentajePromocionAlta |-> row.PorcentajeDePromocionDeAlta,
      presenciaPromociones |-> row.PresenciaDePromociones]

\* rawData.map: one row per record in the order of the records, unless the
\* callback throws: segment.toLowerCase() of a null segment is a TypeError,
\* which ends the map and parseData
parseData(records) ==
  IF \E i \in 1..Len(records) : records[i].Segmento = NULL
  THEN [threw |-> TRUE, rows |-> <<>>]
  ELSE [threw |-> FALSE, rows |-> [i \in 1..Len(records) |-> ParseRow(records[i])]]

-----------------------------------------------------------------------------
(* Promo analysis *)

\* hasPromo without the trim
hasPromo_NoTrim(row) ==
  IF row.presenciaPromociones = NULL THEN FALSE
  ELSE toLowerCase(row.presenciaPromociones) \in {"si", "sí", "yes"}

\* row.presenciaPromociones?.toLowerCase().trim() is one of "si", "sí", "yes"
hasPromo(row) ==
  IF row.presenciaPromociones = NULL THEN FALSE
  ELSE trim(toLowerCase(row.presenciaPromociones)) \in {"si", "sí", "yes"}

MontoPromo(row) == row.montoPromo
PorcentajePromocionRecurrente(row) == row.porcentajePromocionRecurrente
PorcentajePromocionAlta(row) == row.porcentajePromocionAlta

ZeroAnalysis ==
  [avgPromoAmount |-> [num |-> 0, den |-> 1],
   avgRecurringPromoPercent |-> [num |-> 0, den |-> 1],
   avgAltaPromoPercent |-> [num |-> 0, den |-> 1],
   withPromoCount |-> 0, withoutPromoCount |-> 0, totalCount |-> 0]

\* sum / length of a non-empty sequence of numbers, as a fraction
Average(numbers) == [num |-> SumSeq(MapSeq(numbers, ValueOf)), den |-> Len(numbers)]

\* Math.abs(sum / length) * 100 of a non-empty sequence of percentages.  A
\* percentage of the rows is held in hundredths (-50 is the number -0.5), so the
\* product with 100 is the fraction |sum of hundredths| / length
AbsAveragePercent(percents) ==
  [num |-> Abs(SumSeq(MapSeq(percents, ValueOf))), den |-> Len(percents)]

\* calculatePromoAnalysis counting as without promo only the rows whose flag
\* says no
calculatePromoAnalysis_ExplicitNo(rows) ==
  LET SaysNo(r)   == r.presenciaPromociones # NULL
                       /\ trim(toLowerCase(r.presenciaPromociones)) = "no"
      Amount(v)   == v # NullNumber /\ ValueOf(v) > 0
      Discount(v) == v # NullNumber /\ ValueOf(v) < 0
      NonZero(v)  == v # NullNumber /\ ValueOf(v) # 0
      withPromo    == FilterSeq(rows, hasPromo)
      withoutPromo == FilterSeq(rows, SaysNo)
      promoAmounts      == FilterSeq(MapSeq(withPromo, MontoPromo), Amount)
      recurringPercents == FilterSeq(MapSeq(withPromo, PorcentajePromocionRecurrente),
                                     Discount)
      altaPercents      == FilterSeq(MapSeq(rows, PorcentajePromocionAlta), NonZero)
  IN [avgPromoAmount |->
        IF Len(promoAmounts) > 0 THEN Average(promoAmounts) ELSE [num |-> 0, den |-> 1],
      avgRecurringPromoPercent |->
        IF Len(recurringPercents) > 0 THEN AbsAveragePercent(recurringPercents)
        ELSE [num |-> 0, den |-> 1],
      avgAltaPromoPercent |->
        IF Len(altaPercents) > 0 THEN AbsAveragePercent(altaPercents)
        ELSE [num |-> 0, den |-> 1],
      withPromoCount    |-> Len(withPromo),
      withoutPromoCount |-> Len(withoutPromo),
      totalCount        |-> Len(rows)]

\* calculatePromoAnalysis taking the recurring percentages of all the rows
calculatePromoAnalysis_RecurringOfAllRows(rows) ==
  LET NoPromo(r)  == ~hasPromo(r)
      Amount(v)   == v # NullNumber /\ ValueOf(v) > 0
      Discount(v) == v # NullNumber /\ ValueOf(v) < 0
      NonZero(v)  == v # NullNumber /\ ValueOf(v) # 0
      withPromo    == FilterSeq(rows, hasPromo)
      withoutPromo == FilterSeq(rows, NoPromo)
      promoAmounts      == FilterSeq(MapSeq(withPromo, MontoPromo), Amount)
      recurringPercents == FilterSeq(MapSeq(rows, PorcentajePromocionRecurrente),
                                     Discount)
      altaPercents      == FilterSeq(MapSeq(rows, PorcentajePromocionAlta), NonZero)
  IN [avgPromoAmount |->
        IF Len(promoAmounts) > 0 THEN Average(promoAmounts) ELSE [num |-> 0, den |-> 1],
      avgRecurringPromoPercent |->
        IF Len(recurringPercents) > 0 THEN AbsAveragePercent(recurringPercents)
        ELSE [num |-> 0, den |-> 1],
      avgAltaPromoPercent |->
        IF Len(altaPercents) > 0 THEN AbsAveragePercent(altaPercents)
        ELSE [num |-> 0, den |-> 1],
      withPromoCount    |-> Len(withPromo),
      withoutPromoCount |-> Len(withoutPromo),
      totalCount        |-> Len(rows)]

calculatePromoAnalysis(rows) ==
  LET NoPromo(r)  == ~hasPromo(r)
      Amount(v)   == v # NullNumber /\ ValueOf(v) > 0
      Discount(v) == v # NullNumber /\ ValueOf(v) < 0
      NonZero(v)  == v # NullNumber /\ ValueOf(v) # 0
      withPromo    == FilterSeq(rows, hasPromo)
      withoutPromo == FilterSeq(rows, NoPromo)
      promoAmounts      == FilterSeq(MapSeq(withPromo, MontoPromo), Amount)
      recurringPercents == FilterSeq(MapSeq(withPromo, PorcentajePromocionRecurrente),
                                     Discount)
      altaPercents      == FilterSeq(MapSeq(rows, PorcentajePromocionAlta), NonZero)
  IN [avgPromoAmount |->
        IF Len(promoAmounts) > 0 THEN Average(promoAmounts) ELSE [num |-> 0, den |-> 1],
      avgRecurringPromoPercent |->
        IF Len(recurringPercents) > 0 THEN AbsAveragePercent(recurringPercents)
        ELSE [num |-> 0, den |-> 1],
      avgAltaPromoPercent |->
        IF Len(altaPercents) > 0 THEN AbsAveragePercent(altaPercents)
        ELSE [num |-> 0, den |-> 1],
      withPromoCount    |-> Len(withPromo),
      withoutPromoCount |-> Len(withoutPromo),
      totalCount        |-> Len(rows)]

generatePromoAnalysis(rows, f) == calculatePromoAnalysis(filterData(rows, f))

\* groups.forEach in the Map's insertion order, pushing each group's analysis
RECURSIVE GroupAnalyses(_, _)
GroupAnalyses(keys, rows) ==
  IF keys = <<>> THEN <<>>
  ELSE LET InGroup(d) == d.competidor = Head(keys)
       IN <<[competidor |-> Head(keys),
             analysis |-> calculatePromoAnalysis(FilterSeq(rows, InGroup))]>>
          \o GroupAnalyses(Tail(keys), rows)

CompetidorLess(a, b) == StringLess(a.competidor, b.competidor)

\* generatePromoAnalysisByCompetitor without the final sort
generatePromoAnalysisByCompetitor_InsertionOrder(rows, f) ==
  LET filteredData == filterData(rows, f)
  IN GroupAnalyses(Distinct(MapSeq(filteredData, Competidor)), filteredData)

\* generatePromoAnalysisByCompetitor grouping the rows of the dataset instead of
\* the filtered rows
generatePromoAnalysisByCompetitor_Unfiltered(rows, f) ==
  SortSeq(GroupAnalyses(Distinct(MapSeq(rows, Competidor)), rows), CompetidorLess)

generatePromoAnalysisByCompetitor(rows, f) ==
  LET filteredData == filterData(rows, f)
  IN SortSeq(GroupAnalyses(Distinct(MapSeq(filteredData, Competidor)), filteredData),
             CompetidorLess)

-----------------------------------------------------------------------------
(* Dashboard: totalRecords *)

\* the count under "Mostrando N registros": data.length, replaced in turn by
\* the count of each of three filters over the rows, for the filters that are set
totalRecords(rows, f) ==
  LET OfPais(d)       == d.pais = f.pais
      OfCompetidor(d) == /\ (~Truthy(f.pais) \/ d.pais = f.pais)
                         /\ d.competidor = f.competidor
      OfSegmento(d)   == /\ (~Truthy(f.pais) \/ d.pais = f.pais)
                         /\ (~Truthy(f.competidor) \/ d.competidor = f.competidor)
                         /\ d.segmento = f.segmento
      count0 == Len(rows)
      count1 == IF Truthy(f.pais) THEN Len(FilterSeq(rows, OfPais)) ELSE count0
      count2 == IF Truthy(f.competidor) THEN Len(FilterSeq(rows, OfCompetidor)) ELSE count1
      count3 == IF Truthy(f.segmento) THEN Len(FilterSeq(rows, OfSegmento)) ELSE count2
  IN count3

-----------------------------------------------------------------------------
(* The arguments of the derivations when they return *)

\* calculateBoxplotStats sorting `values` itself instead of the copy [...values]
ValuesAfter_SortedInPlace(vals) == SortSeq(vals, <)

\* the array `values` when calculateBoxplotStats returns: sort, which sorts its
\* receiver in place, is called on the copy [...values], and reduce only reads
ValuesAfter(vals) == vals

\* the array of rows when filterData, getAvailableFilterOptions,
\* generateBoxplotComparisons, generatePromoAnalysis or
\* generatePromoAnalysisByCompetitor returns: they call filter, map and forEach
\* on it, which leave their receiver as it is, they call push and sort only on
\* arrays they create, and they assign to no field of a row
RowsAfter(rows) == rows

-----------------------------------------------------------------------------
(* Inputs *)

ValueDomain == {-10, 0, 10, 20, 30, 40}

ValueSeqs == UNION {[1..n -> ValueDomain] : n \in 0..MaxLen}

Paises == {"Argentina", "Chile"}
Competidores == {"ADT", "Prosegur"}
Segmentos == {"Hogares", "Negocios"}

\* the prices of a row: the four EUR fields and the four local fields.  One
\* profile has no installation price, one has an installation price without a
\* promotional one, and one has a recurring base price of zero and a negative
\* installation base price
PriceProfiles ==
  { [recurrenteBase |-> 20, recurrentePromo |-> 10, altaBase |-> 0, altaPromo |-> 0,
     recurrenteBaseLocal |-> 40, recurrentePromoLocal |-> 30,
     altaBaseLocal |-> 0, altaPromoLocal |-> 0],
    [recurrenteBase |-> 10, recurrentePromo |-> 10, altaBase |-> 100, altaPromo |-> 0,
     recurrenteBaseLocal |-> 30, recurrentePromoLocal |-> 30,
     altaBaseLocal |-> 200, altaPromoLocal |-> 0],
    [recurrenteBase |-> 0, recurrentePromo |-> 10, altaBase |-> -10, altaPromo |-> 50,
     recurrenteBaseLocal |-> 0, recurrentePromoLocal |-> 30,
     altaBaseLocal |-> -20, altaPromoLocal |-> 100] }

DefaultPrices == CHOOSE p \in PriceProfiles : p.altaBase = 0

\* a PricingDataRow (the fields the modelled functions read)
MkRow(p, c, s, k, price) ==
  [pais |-> p, competidor |-> c, segmento |-> s, tamanoKit |-> k,
   precioRecurrenteBase |-> price.recurrenteBase,
   precioRecurrentePromocional |-> price.recurrentePromo,
   precioAltaBase |-> price.altaBase,
   precioAltaPromocional |-> price.altaPromo,
   precioRecurrenteBaseLocal |-> price.recurrenteBaseLocal,
   precioRecurrentePromocionalLocal |-> price.recurrentePromoLocal,
   precioAltaBaseLocal |-> price.altaBaseLocal,
   precioAltaPromocionalLocal |-> price.altaPromoLocal]

RowsOver(P, C, S, K, Prices) ==
  {MkRow(p, c, s, k, price) : p \in P, c \in C, s \in S, k \in K, price \in Prices}

Datasets(rows, least) == UNION {[1..n -> rows] : n \in least..MaxRows}

\* rows and filter states of SpecFilter: every dimension has two values in the
\* rows, the kit size is also null or (in two rows) empty, and a filter is null,
\* empty or a value
FilterRows ==
  RowsOver(Paises, Competidores, Segmentos, {NULL, "Basico"}, {DefaultPrices})
    \cup RowsOver({"Argentina"}, {"ADT"}, Segmentos, {""}, {DefaultPrices})

FilterStates ==
  [pais : {NULL, "", "Argentina"}, competidor : {NULL, "ADT"},
   segmento : {NULL, "Hogares"}, tamanoKit : {NULL, "", "Basico"}]

\* rows and filter states of SpecCompare
CompareRows ==
  RowsOver(Paises, Competidores, {"Hogares"}, {NULL}, PriceProfiles)
    \cup RowsOver({"Argentina"}, {"ADT"}, {"Hogares"}, {"Basico"}, PriceProfiles)

CompareFilters ==
  [pais : {NULL, "", "Argentina"}, competidor : {NULL, "ADT"},
   segmento : {NULL, "Hogares"}, tamanoKit : {NULL, "Basico"}]

\* rows of SpecUI; the competitor of two of them is the empty string
UIRows ==
  RowsOver(Paises, Competidores, Segmentos, {NULL, "Basico"}, {DefaultPrices})
    \cup RowsOver({"Argentina"}, {""}, {"Hogares"}, {NULL, "Basico"}, {DefaultPrices})

\* the promo fields of a row: the flag, the promo amount and the two
\* percentages (in hundredths)
PromoProfiles ==
  { [presencia |-> "Sí",   monto |-> Number(100), recurrente |-> Number(-50),
     alta |-> Number(-50)],
    [presencia |-> " SI ", monto |-> NullNumber,  recurrente |-> Number(-20),
     alta |-> Number(50)],
    [presencia |-> "No",   monto |-> Number(30),  recurrente |-> Number(-50),
     alta |-> Number(-50)],
    [presencia |-> NULL,   monto |-> NullNumber,  recurrente |-> NullNumber,
     alta |-> NullNumber],
    [presencia |-> "yes",  monto |-> Number(0),   recurrente |-> Number(0),
     alta |-> Number(0)],
    [presencia |-> "sí",   monto |-> Number(50),  recurrente |-> Number(25),
     alta |-> Number(-100)],
    [presencia |-> "",     monto |-> NullNumber,  recurrente |-> Number(-20),
     alta |-> NullNumber] }

\* a PricingDataRow (the fields the promo analysis and filterData read)
MkPromoRow(p, c, promo) ==
  [pais |-> p, competidor |-> c, segmento |-> "Hogares", tamanoKit |-> NULL,
   presenciaPromociones |-> promo.presencia,
   montoPromo |-> promo.monto,
   porcentajePromocionRecurrente |-> promo.recurrente,
   porcentajePromocionAlta |-> promo.alta]

\* rows and filter states of SpecPromo
PromoRows == {MkPromoRow(p, c, promo) : p \in Paises, c \in Competidores,
                                        promo \in PromoProfiles}

PromoFilters ==
  [pais : {NULL, "Argentina"}, competidor : {NULL, "ADT"},
   segmento : {NULL}, tamanoKit : {NULL}]

\* the records of SpecParse: one record of the data file, and the records that
\* differ from it in the country, in the segment, in the kit size, in the promo
\* amount, in the prices or in the percentages
BaseRecord ==
  [Pais |-> "AR", Competidor |-> "ADT", Segmento |-> "HOGAR", TamanoDelKit |-> "Basico",
   PrecioRecurrenteBase |-> Number(1676), PrecioAltaBase |-> Number(3352),
   MontoDeLaPromo |-> Number(838),
   PorcentajeDePromocionRecurrente |-> Number(-50),
   PorcentajeDePromocionDeAlta |-> Number(-50),
   PresenciaDePromociones |-> "Sí"]

CountryInputs ==
  {NULL, "", "  ", " ar ", "AR", "ARG", "PE", "PER", "PERU", "CHL", "CO", "UY", "PT", "XX"}

RawRecords ==
  {[BaseRecord EXCEPT !.Pais = c] : c \in CountryInputs}
    \cup {[BaseRecord EXCEPT !.Segmento = g] : g \in {NULL, "Negocios", "Pyme"}}
    \cup {[BaseRecord EXCEPT !.TamanoDelKit = k] : k \in {NULL, ""}}
    \cup {[BaseRecord EXCEPT !.MontoDeLaPromo = m] : m \in {NullNumber, Number(0)}}
    \cup {[BaseRecord EXCEPT !.PrecioRecurrenteBase = v, !.PrecioAltaBase = v] :
            v \in {NullNumber, Number(0)}}
    \cup {[BaseRecord EXCEPT !.PorcentajeDePromocionRecurrente = v,
                             !.PorcentajeDePromocionDeAlta = v] :
            v \in {NullNumber, Number(0)}}
    \cup {[BaseRecord EXCEPT !.Pais = "PE", !.PrecioRecurrenteBase = Number(424)]}

\* a PricingDataRow with its price fields and its promo fields
MkFullRow(p, c, s, k, price, promo) ==
  MkRow(p, c, s, k, price) @@
  [presenciaPromociones |-> promo.presencia,
   montoPromo |-> promo.monto,
   porcentajePromocionRecurrente |-> promo.recurrente,
   porcentajePromocionAlta |-> promo.alta]

\* rows and filter states of SpecDerive
DeriveRows ==
  {MkFullRow(p, c, "Hogares", k, price, promo) :
     p \in Paises, c \in Competidores, k \in {"Basico"},
     price \in {q \in PriceProfiles : q.altaBase > 0},
     promo \in {q \in PromoProfiles : q.presencia = "Sí"}}

DeriveFilters ==
  [pais : {NULL, "Argentina"}, competidor : {NULL, "ADT"},
   segmento : {NULL}, tamanoKit : {NULL}]

NoFilters == [pais |-> NULL, competidor |-> NULL, segmento |-> NULL, tamanoKit |-> NULL]

NoOptions == [paises |-> <<>>, competidores |-> <<>>, segmentos |-> <<>>, tamanos |-> <<>>]

NoChange == [key |-> NULL, value |-> NULL, before |-> NoFilters]

\* parseData has not run
NotParsed == [threw |-> FALSE, rows |-> <<>>]

\* the variables a specification does not use
Idle(used) ==
  /\ IF "values" \in used THEN TRUE ELSE values = <<>>
  /\ IF "stats" \in used THEN TRUE ELSE stats = ZeroStats
  /\ IF "data" \in used THEN TRUE ELSE data = <<>>
  /\ IF "filters" \in used THEN TRUE ELSE filters = NoFilters
  /\ IF "priceType" \in used THEN TRUE ELSE priceType = "recurrente"
  /\ IF "currency" \in used THEN TRUE ELSE currency = "EUR"
  /\ IF "filtered" \in used THEN TRUE ELSE filtered = <<>>
  /\ IF "options" \in used THEN TRUE ELSE options = NoOptions
  /\ IF "comparisons" \in used THEN TRUE ELSE comparisons = <<>>
  /\ IF "lastChange" \in used THEN TRUE ELSE lastChange = NoChange
  /\ IF "rawData" \in used THEN TRUE ELSE rawData = <<>>
  /\ IF "parsed" \in used THEN TRUE ELSE parsed = NotParsed
  /\ IF "countryInput" \in used THEN TRUE ELSE countryInput = NULL
  /\ IF "normalized" \in used THEN TRUE ELSE normalized = NULL
  /\ IF "analysis" \in used THEN TRUE ELSE analysis = ZeroAnalysis
  /\ IF "analysisByCompetitor" \in used THEN TRUE ELSE analysisByCompetitor = <<>>

-----------------------------------------------------------------------------
(* SpecStats: calculateBoxplotStats applied to every bounded sequence *)

InitStats ==
  /\ pc = "ready"
  /\ values \in ValueSeqs
  /\ Idle({"values"})

CallCalculateBoxplotStats ==
  /\ pc = "ready"
  /\ stats' = calculateBoxplotStats(values)
  /\ pc' = "calculateBoxplotStats"
  /\ values' = ValuesAfter(values)
  /\ UNCHANGED <<data, filters, priceType, currency, filtered, options,
                 comparisons, lastChange,
                 rawData, parsed, countryInput, normalized, analysis,
                 analysisByCompetitor>>

NextStats == CallCalculateBoxplotStats

SpecStats == InitStats /\ [][NextStats]_vars

-----------------------------------------------------------------------------
(* SpecFilter: filterData and getAvailableFilterOptions applied to every   *)
(* bounded dataset and filter state                                        *)

InitFilter ==
  /\ pc = "ready"
  /\ data \in Datasets(FilterRows, 0)
  /\ filters \in FilterStates
  /\ Idle({"data", "filters"})

CallFilterData ==
  /\ pc = "ready"
  /\ filtered' = filterData(data, filters)
  /\ pc' = "filterData"
  /\ data' = RowsAfter(data)
  /\ UNCHANGED <<values, stats, filters, priceType, currency, options,
                 comparisons, lastChange,
                 rawData, parsed, countryInput, normalized, analysis,
                 analysisByCompetitor>>

CallGetAvailableFilterOptions ==
  /\ pc = "ready"
  /\ options' = getAvailableFilterOptions(data, filters)
  /\ pc' = "getAvailableFilterOptions"
  /\ data' = RowsAfter(data)
  /\ UNCHANGED <<values, stats, filters, priceType, currency, filtered,
                 comparisons, lastChange,
                 rawData, parsed, countryInput, normalized, analysis,
                 analysisByCompetitor>>

NextFilter == CallFilterData \/ CallGetAvailableFilterOptions

SpecFilter == InitFilter /\ [][NextFilter]_vars

-----------------------------------------------------------------------------
(* SpecCompare: generateBoxplotComparisons applied to every bounded dataset, *)
(* filter state, price type and currency                                    *)

InitCompare ==
  /\ pc = "ready"
  /\ data \in Datasets(CompareRows, 0)
  /\ filters \in CompareFilters
  /\ priceType \in {"recurrente", "alta"}
  /\ currency \in {"EUR", "LOCAL"}
  /\ Idle({"data", "filters", "priceType", "currency"})

CallGenerateBoxplotComparisons ==
  /\ pc = "ready"
  /\ comparisons' = generateBoxplotComparisons(data, filters, priceType, currency)
  /\ pc' = "generateBoxplotComparisons"
  /\ data' = RowsAfter(data)
  /\ UNCHANGED <<values, stats, filters, priceType, currency, filtered,
                 options, lastChange,
                 rawData, parsed, countryInput, normalized, analysis,
                 analysisByCompetitor>>

NextCompare == CallGenerateBoxplotComparisons

SpecCompare == InitCompare /\ [][NextCompare]_vars

-----------------------------------------------------------------------------
(* SpecChange: handleFilterChange applied to every filter state, dimension *)
(* and new value                                                           *)

NewValues(key) ==
  {NULL, ""} \cup
  CASE key = "pais"       -> Paises
    [] key = "competidor" -> Competidores
    [] key = "segmento"   -> Segmentos
    [] key = "tamanoKit"  -> {"Basico", "Premium"}

InitChange ==
  /\ pc = "ready"
  /\ filters \in FilterStates
  /\ Idle({"filters"})

CallHandleFilterChange ==
  /\ pc = "ready"
  /\ \E i \in 1..Len(Keys) :
       \E value \in NewValues(Keys[i]) :
         /\ filters' = handleFilterChange(filters, Keys[i], value)
         /\ lastChange' = [key |-> Keys[i], value |-> value, before |-> filters]
  /\ pc' = "handleFilterChange"
  /\ UNCHANGED <<values, stats, data, priceType, currency, filtered, options,
                 comparisons,
                 rawData, parsed, countryInput, normalized, analysis,
                 analysisByCompetitor>>

NextChange == CallHandleFilterChange

SpecChange == InitChange /\ [][NextChange]_vars

-----------------------------------------------------------------------------
(* SpecUI: the Dashboard's filter state.  The dataset is parsed once; the   *)
(* Filters component offers, per dimension, "all" (null) and the values of  *)
(* availableOptions, which each render recomputes from the filter state.    *)

InitUI ==
  /\ pc = "ready"
  /\ data \in Datasets(UIRows, 1)
  /\ filters = NoFilters
  /\ options = getAvailableFilterOptions(data, filters)
  /\ Idle({"data", "filters", "options"})

\* onValueChange of the <Select> of `key`; the kit-size <Select> is rendered
\* only when availableOptions.tamanos is not empty
HandleFilterChange ==
  \E i \in 1..Len(Keys) :
    \E value \in {NULL} \cup Offered(options, Keys[i]) :
      /\ Keys[i] = "tamanoKit" => Len(options.tamanos) > 0
      /\ filters' = handleFilterChange(filters, Keys[i], value)
      /\ options' = getAvailableFilterOptions(data, filters')
      /\ pc' = "handleFilterChange"
      /\ data' = RowsAfter(data)
      /\ UNCHANGED <<values, stats, priceType, currency, filtered, comparisons,
                     lastChange,
                     rawData, parsed, countryInput, normalized, analysis,
                     analysisByCompetitor>>

\* onClick of "Limpiar filtros", rendered only when hasActiveFilters
ClearAllFilters ==
  /\ Truthy(filters.pais) \/ Truthy(filters.competidor)
       \/ Truthy(filters.segmento) \/ Truthy(filters.tamanoKit)
  /\ filters' = clearAllFilters
  /\ options' = getAvailableFilterOptions(data, filters')
  /\ pc' = "clearAllFilters"
  /\ data' = RowsAfter(data)
  /\ UNCHANGED <<values, stats, priceType, currency, filtered, comparisons,
                 lastChange,
                 rawData, parsed, countryInput, normalized, analysis,
                 analysisByCompetitor>>

NextUI == HandleFilterChange \/ ClearAllFilters

SpecUI == InitUI /\ [][NextUI]_vars

-----------------------------------------------------------------------------
(* SpecPromo: generatePromoAnalysis and generatePromoAnalysisByCompetitor *)
(* applied to every bounded dataset and filter state                       *)

InitPromo ==
  /\ pc = "ready"
  /\ data \in Datasets(PromoRows, 0)
  /\ filters \in PromoFilters
  /\ Idle({"data", "filters"})

CallGeneratePromoAnalysis ==
  /\ pc = "ready"
  /\ analysis' = generatePromoAnalysis(data, filters)
  /\ pc' = "generatePromoAnalysis"
  /\ data' = RowsAfter(data)
  /\ UNCHANGED <<values, stats, filters, priceType, currency, filtered,
                 options, comparisons, lastChange, rawData, parsed, countryInput,
                 normalized, analysisByCompetitor>>

CallGeneratePromoAnalysisByCompetitor ==
  /\ pc = "ready"
  /\ analysisByCompetitor' = generatePromoAnalysisByCompetitor(data, filters)
  /\ pc' = "generatePromoAnalysisByCompetitor"
  /\ data' = RowsAfter(data)
  /\ UNCHANGED <<values, stats, filters, priceType, currency, filtered,
                 options, comparisons, lastChange, rawData, parsed, countryInput,
                 normalized, analysis>>

NextPromo == CallGeneratePromoAnalysis \/ CallGeneratePromoAnalysisByCompetitor

SpecPromo == InitPromo /\ [][NextPromo]_vars

-----------------------------------------------------------------------------
(* SpecParse: parseData applied to every bounded sequence of records, and  *)
(* normalizeCountry applied to the country of a record                     *)

InitParse ==
  /\ pc = "ready"
  /\ rawData \in Datasets(RawRecords, 0)
  /\ Idle({"rawData"})

CallParseData ==
  /\ pc = "ready"
  /\ parsed' = parseData(rawData)
  /\ pc' = "parseData"
  /\ UNCHANGED <<values, stats, data, filters, priceType, currency, filtered,
                 options, comparisons, lastChange, rawData, countryInput, normalized,
                 analysis, analysisByCompetitor>>

CallNormalizeCountry ==
  /\ pc = "ready"
  /\ \E i \in 1..Len(rawData) :
       /\ countryInput' = rawData[i].Pais
       /\ normalized' = normalizeCountry(rawData[i].Pais)
  /\ pc' = "normalizeCountry"
  /\ UNCHANGED <<values, stats, data, filters, priceType, currency, filtered,
                 options, comparisons, lastChange, rawData, parsed, analysis,
                 analysisByCompetitor>>

NextParse == CallParseData \/ CallNormalizeCountry

SpecParse == InitParse /\ [][NextParse]_vars

-----------------------------------------------------------------------------
(* SpecDerive: every derivation applied once to its argument, and the      *)
(* filter changes of the dashboard after it                                *)

InitDerive ==
  /\ pc = "ready"
  /\ \/ /\ values \in ValueSeqs
        /\ data = <<>>
        /\ filters = NoFilters
        /\ priceType = "recurrente"
     \/ /\ values = <<>>
        /\ data \in Datasets(DeriveRows, 1)
        /\ filters \in DeriveFilters
        /\ priceType \in {"recurrente", "alta"}
  /\ options = getAvailableFilterOptions(data, filters)
  /\ Idle({"values", "data", "filters", "priceType", "options"})

NextDerive ==
  \/ CallCalculateBoxplotStats
  \/ CallFilterData
  \/ CallGetAvailableFilterOptions
  \/ CallGenerateBoxplotComparisons
  \/ CallGeneratePromoAnalysis
  \/ CallGeneratePromoAnalysisByCompetitor
  \/ HandleFilterChange
  \/ ClearAllFilters

SpecDerive == InitDerive /\ [][NextDerive]_vars

-----------------------------------------------------------------------------
(* Helpers of the properties *)

SortedAscending(s) == \A i \in 1..(Len(s) - 1) : s[i] <= s[i + 1]

StrictlySortedStrings(s) == \A i \in 1..(Len(s) - 1) : StringLess(s[i], s[i + 1])

Count(s, v) == Cardinality({i \in 1..Len(s) : s[i] = v})

\* the same elements with the same multiplicities
SameBag(a, b) ==
  /\ Len(a) = Len(b)
  /\ \A v \in SeqRange(a) \cup SeqRange(b) : Count(a, v) = Count(b, v)

\* a is b with some elements removed
RECURSIVE IsSubSeq(_, _)
IsSubSeq(a, b) ==
  IF a = <<>> THEN TRUE
  ELSE IF b = <<>> THEN FALSE
  ELSE IF Head(a) = Head(b) THEN IsSubSeq(Tail(a), Tail(b))
  ELSE IsSubSeq(a, Tail(b))

Dimensions == {"pais", "competidor", "segmento", "tamanoKit"}

\* the priority of a dimension: pais 1, competidor 2, segmento 3, tamanoKit 4
Priority(key) == CHOOSE i \in 1..Len(Keys) : Keys[i] = key

\* a filter value that constrains: neither null nor the empty string
IsSet(v) == v # NULL /\ v # ""

\* the row agrees with every set filter among `dims`
MatchesOn(row, f, dims) == \A k \in dims : IsSet(f[k]) => row[k] = f[k]

\* the row agrees with every non-null filter among `dims`
MatchesNonNullOn(row, f, dims) == \A k \in dims : f[k] # NULL => row[k] = f[k]

Matching(rows, f, dims) == {i \in 1..Len(rows) : MatchesOn(rows[i], f, dims)}

MatchingNonNull(rows, f, dims) == {i \in 1..Len(rows) : MatchesNonNullOn(rows[i], f, dims)}

-----------------------------------------------------------------------------
(* C1 *)

\* C1: for every non-empty numeric sequence, calculateBoxplotStats returns
\* min <= q1 <= median <= q3 <= max.
C1_QuartilesOrdered ==
  (pc = "calculateBoxplotStats" /\ Len(values) >= 1) =>
    /\ stats.min <= stats.q1
    /\ stats.q1 <= stats.median
    /\ stats.median <= stats.q3
    /\ stats.q3 <= stats.max

\* an unsorted argument whose five statistics are not all equal
C1_Witness ==
  /\ pc = "calculateBoxplotStats"
  /\ Len(values) = 4
  /\ ~SortedAscending(values)
  /\ stats.min < stats.q1 /\ stats.q1 < stats.median /\ stats.median < stats.q3

-----------------------------------------------------------------------------
(* C2 *)

\* C2: for a non-empty V of length n, with S the ascending sort of V, the result
\* has min = S[0], q1 = S[floor(n/4)], median = S[floor(n/2)], q3 = S[floor(3n/4)],
\* max = S[n-1] (indices from 0; nearest rank, so the upper middle value for an
\* even n) and mean = sum(V)/n; [10,20,30,40] gives 10, 20, 30, 40, 40 and mean 25.
C2_NearestRank ==
  (pc = "calculateBoxplotStats" /\ Len(values) >= 1) =>
    LET n == Len(values)
        S == stats.values
    IN /\ SortedAscending(S) /\ SameBag(S, values)
       /\ stats.min = S[1]
       /\ stats.q1 = S[(n \div 4) + 1]
       /\ stats.median = S[(n \div 2) + 1]
       /\ stats.q3 = S[((3 * n) \div 4) + 1]
       /\ stats.max = S[n]
       /\ stats.mean.den # 0
       /\ stats.mean.num * n = SumSeq(values) * stats.mean.den
       /\ (n % 2 = 0 => stats.median = S[(n \div 2) + 1] /\ stats.median >= S[n \div 2])
       /\ (values = <<10, 20, 30, 40>> =>
             /\ stats.min = 10 /\ stats.q1 = 20 /\ stats.median = 30
             /\ stats.q3 = 40 /\ stats.max = 40
             /\ stats.mean.num = 25 * stats.mean.den)

\* the scenario's values in another order: the median is the upper middle value
C2_Witness ==
  /\ pc = "calculateBoxplotStats"
  /\ values = <<40, 10, 30, 20>>
  /\ stats.median = 30
  /\ stats.q1 = 20
  /\ stats.mean.num = 100

-----------------------------------------------------------------------------
(* C3 *)

\* C3 as amended: filterData keeps a row if and only if, for every one of the four
\* dimensions whose filter value is neither null nor the empty string, the row's
\* attribute is exactly that value; a null or empty filter value never excludes a
\* row, and a row with a null kit size is excluded whenever a kit-size filter is set.
C3_KeepsExactlyMatchingSet ==
  pc = "filterData" =>
    /\ \A i \in 1..Len(data) :
         MatchesOn(data[i], filters, Dimensions) <=> data[i] \in SeqRange(filtered)
    /\ Len(filtered) = Cardinality(Matching(data, filters, Dimensions))
    /\ (\A k \in Dimensions : ~IsSet(filters[k])) => filtered = data
    /\ IsSet(filters.tamanoKit) => \A j \in 1..Len(filtered) : filtered[j].tamanoKit # NULL

\* a kit-size filter excludes a row with a null kit size and keeps another row
C3_Witness ==
  /\ pc = "filterData"
  /\ filters.tamanoKit = "Basico"
  /\ IsSet(filters.pais)
  /\ \E i \in 1..Len(data) : data[i].tamanoKit = NULL /\ data[i].pais = filters.pais
  /\ Len(filtered) = 1

\* C3 as stated: a row is kept if and only if it agrees with every non-null filter.
C3_Original ==
  pc = "filterData" =>
    /\ \A i \in 1..Len(data) :
         MatchesNonNullOn(data[i], filters, Dimensions) <=> data[i] \in SeqRange(filtered)
    /\ Len(filtered) = Cardinality(MatchingNonNull(data, filters, Dimensions))

-----------------------------------------------------------------------------
(* C4 *)

\* C4: filterData(R, F) is a sub-sequence of R (same rows, same relative order,
\* nothing added) and filtering again with F changes nothing.
C4_SubSequenceIdempotent ==
  pc = "filterData" =>
    /\ IsSubSeq(filtered, data)
    /\ filterData(filtered, filters) = filtered

\* some rows are kept and some are dropped
C4_Witness ==
  /\ pc = "filterData"
  /\ Len(data) = 2
  /\ filtered = <<data[2]>>
  /\ data[1] # data[2]

-----------------------------------------------------------------------------
(* C5 *)

OptionValues(rows, f, dims, key) == {rows[i][key] : i \in Matching(rows, f, dims)}

OptionValuesNonNull(rows, f, dims, key) ==
  {rows[i][key] : i \in MatchingNonNull(rows, f, dims)}

\* C5 as amended: paises are the distinct countries of the whole dataset;
\* competidores the distinct competitors of the rows matching the country filter;
\* segmentos the distinct segments of the rows matching the country and competitor
\* filters; tamanos the distinct non-null, non-empty kit sizes of the rows matching
\* the country, competitor and segment filters, where a filter that is null or the
\* empty string matches every row.  Each list is sorted without duplicates, and
\* none depends on the filter of its own or of a lower-priority dimension.
C5_CascadingOptions ==
  pc = "getAvailableFilterOptions" =>
    /\ SeqRange(options.paises) = OptionValues(data, filters, {}, "pais")
    /\ SeqRange(options.competidores) = OptionValues(data, filters, {"pais"}, "competidor")
    /\ SeqRange(options.segmentos) =
         OptionValues(data, filters, {"pais", "competidor"}, "segmento")
    /\ SeqRange(options.tamanos) =
         OptionValues(data, filters, {"pais", "competidor", "segmento"}, "tamanoKit")
           \ {NULL, ""}
    /\ StrictlySortedStrings(options.paises)
    /\ StrictlySortedStrings(options.competidores)
    /\ StrictlySortedStrings(options.segmentos)
    /\ StrictlySortedStrings(options.tamanos)

\* every filter is set, each list but paises is narrowed, and a row with an
\* empty kit size matched
C5_Witness ==
  /\ pc = "getAvailableFilterOptions"
  /\ IsSet(filters.pais) /\ IsSet(filters.competidor) /\ IsSet(filters.segmento)
  /\ Len(options.paises) = 2
  /\ Len(options.competidores) = 1
  /\ Len(options.segmentos) = 1
  /\ options.tamanos = <<>>
  /\ \E i \in 1..Len(data) :
       data[i].tamanoKit = "" /\ MatchesOn(data[i], filters, Dimensions \ {"tamanoKit"})

\* C5 as stated: the rows matching a filter are those that agree with every
\* non-null filter value.
C5_Original ==
  pc = "getAvailableFilterOptions" =>
    /\ SeqRange(options.paises) = OptionValuesNonNull(data, filters, {}, "pais")
    /\ SeqRange(options.competidores) =
         OptionValuesNonNull(data, filters, {"pais"}, "competidor")
    /\ SeqRange(options.segmentos) =
         OptionValuesNonNull(data, filters, {"pais", "competidor"}, "segmento")
    /\ SeqRange(options.tamanos) =
         OptionValuesNonNull(data, filters, {"pais", "competidor", "segmento"}, "tamanoKit")
           \ {NULL, ""}

-----------------------------------------------------------------------------
(* C6 *)

\* C6: starting from the all-null filter state over a non-empty dataset, after any
\* sequence of filter changes, each to null or to a value currently offered for
\* its dimension, and of clear-all actions, some row matches the selection:
\* filterData(data, filters) is not empty.
C6_SelectionSatisfiable == Len(filterData(data, filters)) > 0

\* all four dimensions selected, one after the other, and some row filtered out
C6_Witness ==
  /\ pc = "handleFilterChange"
  /\ IsSet(filters.pais) /\ IsSet(filters.competidor)
  /\ IsSet(filters.segmento) /\ IsSet(filters.tamanoKit)
  /\ Len(filterData(data, filters)) < Len(data)

-----------------------------------------------------------------------------
(* C7 *)

\* C7: a filter change on dimension k with any new value (null and the value
\* already selected included) gives a state where k holds the new value, every
\* dimension of lower priority than k is null and every dimension of higher
\* priority is as before; a change of tamanoKit leaves the other three as before.
C7_ChangeResetsLower ==
  pc = "handleFilterChange" =>
    LET k == lastChange.key IN
    /\ filters[k] = lastChange.value
    /\ \A d \in Dimensions :
         /\ Priority(d) > Priority(k) => filters[d] = NULL
         /\ Priority(d) < Priority(k) => filters[d] = lastChange.before[d]
    /\ k = "tamanoKit" =>
         \A d \in Dimensions \ {"tamanoKit"} : filters[d] = lastChange.before[d]

\* the competitor re-selected with the value it had: the country stays, the
\* segment and the kit size that were selected are reset
C7_Witness ==
  /\ pc = "handleFilterChange"
  /\ lastChange.key = "competidor"
  /\ lastChange.value = lastChange.before.competidor
  /\ IsSet(lastChange.value)
  /\ IsSet(lastChange.before.pais) /\ filters.pais = lastChange.before.pais
  /\ IsSet(lastChange.before.segmento) /\ filters.segmento = NULL
  /\ IsSet(lastChange.before.tamanoKit) /\ filters.tamanoKit = NULL

-----------------------------------------------------------------------------
(* C8 *)

\* the state after choosing `value` for `key`: the dimensions below are null
Chosen(f, key, value) ==
  [d \in Dimensions |->
     IF d = key THEN value ELSE IF Priority(d) > Priority(key) THEN NULL ELSE f[d]]

\* C8: every option that getAvailableFilterOptions(rows, F) offers for a dimension
\* yields at least one row given the higher-priority selections: filterData(rows,
\* F with the dimension set to the option and the dimensions below it null) is
\* not empty.
C8_OfferedOptionsYieldRows ==
  pc = "getAvailableFilterOptions" =>
    \A d \in Dimensions : \A o \in Offered(options, d) :
      Len(filterData(data, Chosen(filters, d, o))) > 0

\* under a country and a competitor, an offered segment and an offered kit size,
\* while the dataset has a row of another competitor
C8_Witness ==
  /\ pc = "getAvailableFilterOptions"
  /\ IsSet(filters.pais) /\ IsSet(filters.competidor)
  /\ Len(options.segmentos) = 1
  /\ Len(options.tamanos) = 1
  /\ \E i \in 1..Len(data) : data[i].competidor # filters.competidor

-----------------------------------------------------------------------------
(* C9 *)

\* C9: if F2 is F1 with one dimension set from null to a value, each of the
\* competidores, segmentos and tamanos lists under F2 is a subset of the list
\* under F1 (so no longer), and the paises list is the same.
C9_OptionsNeverGrow ==
  pc = "getAvailableFilterOptions" =>
    \A d \in Dimensions : filters[d] = NULL =>
      \A v \in NewValues(d) \ {NULL} :
        LET options2 == getAvailableFilterOptions(data, [filters EXCEPT ![d] = v])
        IN /\ SeqRange(options2.competidores) \subseteq SeqRange(options.competidores)
           /\ SeqRange(options2.segmentos) \subseteq SeqRange(options.segmentos)
           /\ SeqRange(options2.tamanos) \subseteq SeqRange(options.tamanos)
           /\ Len(options2.competidores) <= Len(options.competidores)
           /\ Len(options2.segmentos) <= Len(options.segmentos)
           /\ Len(options2.tamanos) <= Len(options.tamanos)
           /\ options2.paises = options.paises

\* setting the country strictly narrows the competitors, the segments and the
\* kit sizes offered
C9_Witness ==
  /\ pc = "getAvailableFilterOptions"
  /\ filters = NoFilters
  /\ LET options2 == getAvailableFilterOptions(data, [filters EXCEPT !.pais = "Argentina"])
     IN /\ Len(options2.competidores) < Len(options.competidores)
        /\ Len(options2.segmentos) < Len(options.segmentos)
        /\ Len(options2.tamanos) < Len(options.tamanos)
        /\ Len(options2.competidores) > 0

-----------------------------------------------------------------------------
(* C10 *)

\* the base and promo values that a row contributes for price type recurrente
RecurrenteBase(row) ==
  IF currency = "EUR" THEN row.precioRecurrenteBase ELSE row.precioRecurrenteBaseLocal

RecurrentePromo(row) ==
  IF currency = "EUR" THEN row.precioRecurrentePromocional
  ELSE row.precioRecurrentePromocionalLocal

\* exactly one comparison, "Todos", built from all the rows
OneGroupOfAll(result, rows) ==
  /\ Len(result) = 1
  /\ result[1].label = "Todos"
  /\ SameBag(result[1].base.values, MapSeq(rows, RecurrenteBase))
  /\ SameBag(result[1].promo.values, MapSeq(rows, RecurrentePromo))

\* one comparison per distinct competitor of the rows, the labels pairwise
\* distinct, each built from exactly the rows of its competitor
OneGroupPerCompetidor(result, rows) ==
  /\ {result[j].label : j \in 1..Len(result)} = {rows[i].competidor : i \in 1..Len(rows)}
  /\ \A j, l \in 1..Len(result) : result[j].label = result[l].label => j = l
  /\ \A j \in 1..Len(result) :
       LET OfLabel(row) == row.competidor = result[j].label
           own == SelectSeq(rows, OfLabel)
       IN /\ SameBag(result[j].base.values, MapSeq(own, RecurrenteBase))
          /\ SameBag(result[j].promo.values, MapSeq(own, RecurrentePromo))

\* C10 as amended: the grouping mode depends only on whether filters.pais is set,
\* where set means neither null nor the empty string.  For price type recurrente
\* and a non-empty filtered set: if pais is not set the result is exactly one
\* comparison labelled "Todos" built from all filtered rows (also when a
\* competitor, segment or kit filter is set); if pais is set the result has exactly
\* one comparison per distinct competitor among the filtered rows, with pairwise
\* distinct labels, and each filtered row contributes its base and promo value to
\* exactly the group of its own competitor.
C10_GroupingByPais ==
  (/\ pc = "generateBoxplotComparisons"
   /\ priceType = "recurrente"
   /\ Len(filterData(data, filters)) > 0) =>
    IF IsSet(filters.pais)
    THEN OneGroupPerCompetidor(comparisons, filterData(data, filters))
    ELSE OneGroupOfAll(comparisons, filterData(data, filters))

\* a country and a segment selected, two competitors among the filtered rows
C10_Witness ==
  /\ pc = "generateBoxplotComparisons"
  /\ priceType = "recurrente"
  /\ IsSet(filters.pais) /\ IsSet(filters.segmento)
  /\ Len(comparisons) = 2
  /\ comparisons[1].label # comparisons[2].label
  /\ comparisons[1].base.values # comparisons[2].base.values

\* C10 as stated: one "Todos" comparison if pais is null, one comparison per
\* competitor if pais is not null.
C10_Original ==
  (/\ pc = "generateBoxplotComparisons"
   /\ priceType = "recurrente"
   /\ Len(filterData(data, filters)) > 0) =>
    IF filters.pais # NULL
    THEN OneGroupPerCompetidor(comparisons, filterData(data, filters))
    ELSE OneGroupOfAll(comparisons, filterData(data, filters))

-----------------------------------------------------------------------------
(* C11 *)

\* the base and promo values that a row contributes for the price type and the
\* currency of the state
BasePriceOf(row) ==
  CASE priceType = "recurrente" /\ currency = "EUR" -> row.precioRecurrenteBase
    [] priceType = "recurrente" /\ currency # "EUR" -> row.precioRecurrenteBaseLocal
    [] priceType = "alta" /\ currency = "EUR"       -> row.precioAltaBase
    [] priceType = "alta" /\ currency # "EUR"       -> row.precioAltaBaseLocal

PromoPriceOf(row) ==
  CASE priceType = "recurrente" /\ currency = "EUR" -> row.precioRecurrentePromocional
    [] priceType = "recurrente" /\ currency # "EUR" -> row.precioRecurrentePromocionalLocal
    [] priceType = "alta" /\ currency = "EUR"       -> row.precioAltaPromocional
    [] priceType = "alta" /\ currency # "EUR"       -> row.precioAltaPromocionalLocal

\* the filtered rows that belong to the group of a label
GroupRows(label) ==
  LET OfLabel(row) == row.competidor = label
  IN IF IsSet(filters.pais) THEN SelectSeq(filterData(data, filters), OfLabel)
     ELSE filterData(data, filters)

\* the labels of the groups the filtered rows fall into
GroupLabels ==
  IF IsSet(filters.pais)
  THEN {filterData(data, filters)[i].competidor : i \in 1..Len(filterData(data, filters))}
  ELSE IF Len(filterData(data, filters)) > 0 THEN {"Todos"} ELSE {}

\* every price that occurs in the rows
PricesIn(rows) ==
  {BasePriceOf(rows[i]) : i \in 1..Len(rows)} \cup {PromoPriceOf(rows[i]) : i \in 1..Len(rows)}

\* `kept` holds each value of `all` as often as `all` does, but for the values
\* in `dropped`, which it does not hold
KeepsAllBut(kept, all, dropped) ==
  \A v \in SeqRange(kept) \cup SeqRange(all) :
    Count(kept, v) = IF v \in dropped THEN 0 ELSE Count(all, v)

-----------------------------------------------------------------------------
(* C12 *)

\* a group has a base value left after the filtering of the price type
HasBaseValue(label) ==
  \E i \in 1..Len(GroupRows(label)) :
    priceType = "alta" => BasePriceOf(GroupRows(label)[i]) > 0

\* C12: a group is emitted if and only if its base array after the filtering of
\* the price type is non-empty: every returned comparison has a non-empty
\* base.values, a group whose base array is empty is absent from the result in
\* the "Todos" mode and in the per-competitor mode, and the result is empty when
\* no row matches the filters.
C12_EmittedIffBaseNonEmpty ==
  pc = "generateBoxplotComparisons" =>
    /\ \A j \in 1..Len(comparisons) : Len(comparisons[j].base.values) > 0
    /\ {comparisons[j].label : j \in 1..Len(comparisons)}
         = {g \in GroupLabels : HasBaseValue(g)}
    /\ \A j, l \in 1..Len(comparisons) :
         comparisons[j].label = comparisons[l].label => j = l
    /\ Len(filterData(data, filters)) = 0 => comparisons = <<>>

\* per-competitor mode, two competitors among the filtered rows, one of them with
\* installation base prices of zero only: one comparison
C12_Witness ==
  /\ pc = "generateBoxplotComparisons"
  /\ priceType = "alta"
  /\ IsSet(filters.pais)
  /\ Cardinality(GroupLabels) = 2
  /\ Len(comparisons) = 1
  /\ \E g \in GroupLabels :
       \A i \in 1..Len(GroupRows(g)) : BasePriceOf(GroupRows(g)[i]) = 0

-----------------------------------------------------------------------------
(* C13 *)

\* the fraction p is the number (promo - base) / base * 100
IsPercentageDiff(p, base, promo) ==
  /\ p.den # 0 /\ base.den # 0 /\ promo.den # 0
  /\ p.num * (base.num * promo.den)
       = (promo.num * base.den - base.num * promo.den) * 100 * p.den

\* C13: percentageDiff is (promo.mean - base.mean) / base.mean * 100 when
\* base.mean is not zero, and is exactly 0 when base.mean is zero, whatever
\* promo.mean is; no division by zero takes place.
C13_PercentageDiff ==
  pc = "generateBoxplotComparisons" =>
    \A j \in 1..Len(comparisons) :
      LET c == comparisons[j] IN
      IF c.base.mean.num = 0
      THEN c.percentageDiff.num = 0 /\ c.percentageDiff.den # 0
      ELSE IsPercentageDiff(c.percentageDiff, c.base.mean, c.promo.mean)

\* a comparison whose base mean is zero while its promo mean is not
C13_Witness ==
  /\ pc = "generateBoxplotComparisons"
  /\ \E j \in 1..Len(comparisons) :
       /\ comparisons[j].base.mean.num = 0
       /\ comparisons[j].promo.mean.num # 0
       /\ comparisons[j].percentageDiff.num = 0

-----------------------------------------------------------------------------
(* C20 *)

\* C20: calculateBoxplotStats of the empty array returns, without an error, the
\* sentinel whose min, q1, median, q3, max and mean are all 0 and whose values
\* array is empty.
C20_EmptySentinel ==
  (pc = "calculateBoxplotStats" /\ values = <<>>) =>
    /\ stats.min = 0 /\ stats.q1 = 0 /\ stats.median = 0
    /\ stats.q3 = 0 /\ stats.max = 0
    /\ stats.mean.num = 0 /\ stats.mean.den # 0
    /\ stats.values = <<>>

\* the function has returned for the empty array
C20_Witness ==
  /\ pc = "calculateBoxplotStats"
  /\ Len(values) = 0
  /\ Len(stats.values) = 0

-----------------------------------------------------------------------------
(* C14 *)

\* the counts of a PromoAnalysis add up over `rows`, and all of its numbers
\* are zero when there is no row
CountsAddUp(a, rows) ==
  /\ a.withPromoCount + a.withoutPromoCount = a.totalCount
  /\ a.totalCount = Len(rows)
  /\ Len(rows) = 0 =>
       /\ a.withPromoCount = 0 /\ a.withoutPromoCount = 0 /\ a.totalCount = 0
       /\ a.avgPromoAmount.num = 0 /\ a.avgPromoAmount.den # 0
       /\ a.avgRecurringPromoPercent.num = 0 /\ a.avgRecurringPromoPercent.den # 0
       /\ a.avgAltaPromoPercent.num = 0 /\ a.avgAltaPromoPercent.den # 0

\* C14: for every PromoAnalysis returned (the one of generatePromoAnalysis and
\* each one of generatePromoAnalysisByCompetitor), the empty row set included,
\* withPromoCount + withoutPromoCount = totalCount = the number of rows
\* analysed; for an empty row set the three counts and the three averages are 0.
C14_CountsPartitionRows ==
  /\ pc = "generatePromoAnalysis" => CountsAddUp(analysis, filterData(data, filters))
  /\ pc = "generatePromoAnalysisByCompetitor" =>
       \A j \in 1..Len(analysisByCompetitor) :
         LET OfCompetidor(row) == row.competidor = analysisByCompetitor[j].competidor
         IN CountsAddUp(analysisByCompetitor[j].analysis,
                        SelectSeq(filterData(data, filters), OfCompetidor))

\* two rows analysed, one with a promo and one whose flag is null
C14_Witness ==
  /\ pc = "generatePromoAnalysis"
  /\ analysis.withPromoCount = 1
  /\ analysis.withoutPromoCount = 1
  /\ \E i \in 1..Len(filterData(data, filters)) :
       filterData(data, filters)[i].presenciaPromociones = NULL

-----------------------------------------------------------------------------
(* C15 *)

\* the alta percentages (in hundredths) that are neither null nor zero
AltaPercents(rows) ==
  LET Qualifies(row) == /\ row.porcentajePromocionAlta # NullNumber
                        /\ ValueOf(row.porcentajePromocionAlta) # 0
  IN MapSeq(SelectSeq(rows, Qualifies), PorcentajePromocionAlta)

RECURSIVE SumOfMagnitudes(_)
SumOfMagnitudes(percents) ==
  IF percents = <<>> THEN 0
  ELSE Abs(ValueOf(Head(percents))) + SumOfMagnitudes(Tail(percents))

\* C15: avgAltaPromoPercent is the average of the absolute values of
\* porcentajePromocionAlta, times 100, over all analysed rows whose value is
\* neither null nor zero (with or without a promo), and 0 when no row
\* qualifies: for values of mixed sign it is the mean of the magnitudes.
C15_MeanOfMagnitudes ==
  pc = "generatePromoAnalysis" =>
    LET percents == AltaPercents(filterData(data, filters))
        avg == analysis.avgAltaPromoPercent
    IN /\ avg.den # 0
       /\ IF Len(percents) = 0 THEN avg.num = 0
          ELSE avg.num * Len(percents) = SumOfMagnitudes(percents) * avg.den

-----------------------------------------------------------------------------
(* C16 *)

\* the rate (in hundredths) of the country a record spells: the rate of its
\* trimmed, upper-cased spelling if the table holds it, and otherwise 1
RateOfRecord(row) ==
  LET key == IF row.Pais = NULL THEN "" ELSE toUpperCase(trim(row.Pais))
  IN IF key \in DOMAIN EXCHANGE_RATES THEN EXCHANGE_RATES[key] ELSE 100

\* the fraction q, in lowest terms, is local / rate, the rate in hundredths
IsLocalOverRate(q, local, rate) ==
  /\ q.den > 0
  /\ q = Quotient(local * 100, rate)

\* C16: for every row parsed by parseData each EUR price field is the local
\* value divided by the exchange rate of the row's country, for every spelling
\* of the country that the alias table accepts; only an unknown country is
\* converted at rate 1.
C16_EurIsLocalOverRate ==
  (pc = "parseData" /\ ~parsed.threw) =>
    \A i \in 1..Len(parsed.rows) :
      LET row  == parsed.rows[i]
          rate == RateOfRecord(rawData[i])
      IN /\ IsLocalOverRate(row.precioRecurrenteBase,
                            ToNumber(row.precioRecurrenteBaseLocal), rate)
         /\ IsLocalOverRate(row.precioAltaBase, ToNumber(row.precioAltaBaseLocal), rate)
         /\ row.montoPromo # NullNumber =>
              IsLocalOverRate(ValueOf(row.montoPromo), ToNumber(row.montoPromoLocal), rate)

-----------------------------------------------------------------------------
(* C17 *)

\* C17: parseData is total and one-to-one: it returns exactly one canonical row
\* per record, in the order of the records, and never throws, also for records
\* with null fields.
C17_ParseTotal ==
  pc = "parseData" =>
    /\ ~parsed.threw
    /\ Len(parsed.rows) = Len(rawData)
    /\ \A i \in 1..Len(parsed.rows) :
         /\ parsed.rows[i].competidor = rawData[i].Competidor
         /\ parsed.rows[i].precioRecurrenteBaseLocal = rawData[i].PrecioRecurrenteBase
         /\ parsed.rows[i].montoPromoLocal = rawData[i].MontoDeLaPromo
         /\ parsed.rows[i].porcentajePromocionAlta = rawData[i].PorcentajeDePromocionDeAlta

-----------------------------------------------------------------------------
(* C18 *)

\* C18: montoPromo is null exactly when the promo amount of the record is
\* null: an amount of 0 stays the number 0, so montoPromo is null if and only
\* if montoPromoLocal is null; the two percentage fields keep null as null and
\* 0 as 0.
C18_MontoNullIffAbsent ==
  (pc = "parseData" /\ ~parsed.threw) =>
    \A i \in 1..Len(parsed.rows) :
      LET row == parsed.rows[i] IN
      /\ row.montoPromo = NullNumber <=> rawData[i].MontoDeLaPromo = NullNumber
      /\ row.montoPromo = NullNumber <=> row.montoPromoLocal = NullNumber
      /\ rawData[i].MontoDeLaPromo = Number(0) =>
           row.montoPromo # NullNumber /\ ValueOf(row.montoPromo).num = 0
      /\ row.porcentajePromocionRecurrente = rawData[i].PorcentajeDePromocionRecurrente
      /\ row.porcentajePromocionAlta = rawData[i].PorcentajeDePromocionDeAlta

-----------------------------------------------------------------------------
(* C19 *)

\* the canonical name of a cleaned spelling, or the cleaned spelling itself
CanonicalOrCleaned(cleaned) ==
  IF cleaned \in DOMAIN COUNTRY_NAMES THEN COUNTRY_NAMES[cleaned] ELSE cleaned

\* C19 as amended: normalizeCountry returns, for an input whose trimmed and
\* upper-cased form is in the alias table, the canonical name of that alias; for
\* a null or empty input the placeholder "Desconocido"; and for any other input
\* (an unknown spelling, or white space only) the trimmed, upper-cased input
\* itself.
C19_NormalizeCountry ==
  pc = "normalizeCountry" =>
    IF countryInput = NULL \/ countryInput = ""
    THEN normalized = "Desconocido"
    ELSE normalized = CanonicalOrCleaned(toUpperCase(trim(countryInput)))

\* an alias spelled in lower case between blanks
C19_Witness ==
  /\ pc = "normalizeCountry"
  /\ countryInput = " ar "
  /\ normalized = "Argentina"

\* C19 as stated: for a null, empty or unknown input normalizeCountry returns
\* the trimmed, upper-cased input itself, which for a null or empty input is the
\* empty string.
C19_Original ==
  pc = "normalizeCountry" =>
    IF countryInput = NULL \/ countryInput = ""
    THEN normalized = ""
    ELSE normalized = CanonicalOrCleaned(toUpperCase(trim(countryInput)))

-----------------------------------------------------------------------------
(* C21 *)

\* C21: in the per-competitor mode (filters.pais set) the comparisons returned
\* by generateBoxplotComparisons are in ascending order of label, whatever the
\* order of the rows.
C21_LabelsAscending ==
  (pc = "generateBoxplotComparisons" /\ IsSet(filters.pais)) =>
    \A j \in 1..(Len(comparisons) - 1) :
      StringLess(comparisons[j].label, comparisons[j + 1].label)

\* the rows hold the later label first, the result holds it last
C21_Witness ==
  /\ pc = "generateBoxplotComparisons"
  /\ IsSet(filters.pais)
  /\ Len(filterData(data, filters)) = 2
  /\ filterData(data, filters)[1].competidor = "Prosegur"
  /\ filterData(data, filters)[2].competidor = "ADT"
  /\ Len(comparisons) = 2
  /\ comparisons[1].label = "ADT"
  /\ comparisons[2].label = "Prosegur"

-----------------------------------------------------------------------------
(* C22 *)

\* the filtered rows of a competitor
RowsOfCompetidor(c) ==
  LET OfCompetidor(row) == row.competidor = c
  IN SelectSeq(filterData(data, filters), OfCompetidor)

\* C22: generatePromoAnalysisByCompetitor returns exactly one entry per distinct
\* competitor among the filtered rows, the analysis of each entry is the promo
\* analysis of exactly the filtered rows of that competitor (so its totalCount is
\* at least 1), and the entries are in ascending order of competitor.
C22_OneEntryPerCompetidor ==
  pc = "generatePromoAnalysisByCompetitor" =>
    /\ {analysisByCompetitor[j].competidor : j \in 1..Len(analysisByCompetitor)}
         = {filterData(data, filters)[i].competidor :
              i \in 1..Len(filterData(data, filters))}
    /\ \A j \in 1..Len(analysisByCompetitor) :
         /\ analysisByCompetitor[j].analysis
              = calculatePromoAnalysis(RowsOfCompetidor(analysisByCompetitor[j].competidor))
         /\ analysisByCompetitor[j].analysis.totalCount
              = Len(RowsOfCompetidor(analysisByCompetitor[j].competidor))
         /\ analysisByCompetitor[j].analysis.totalCount >= 1
    /\ \A j \in 1..(Len(analysisByCompetitor) - 1) :
         StringLess(analysisByCompetitor[j].competidor,
                    analysisByCompetitor[j + 1].competidor)

\* two competitors among the filtered rows, the later one first, with
\* different analyses
C22_Witness ==
  /\ pc = "generatePromoAnalysisByCompetitor"
  /\ Len(filterData(data, filters)) = 2
  /\ filterData(data, filters)[1].competidor = "Prosegur"
  /\ Len(analysisByCompetitor) = 2
  /\ analysisByCompetitor[1].competidor = "ADT"
  /\ analysisByCompetitor[1].analysis # analysisByCompetitor[2].analysis

-----------------------------------------------------------------------------
(* C23 *)

\* the flags of the rows that read, lowercased and trimmed, "si", "sí" or "yes",
\* and the other flags of the rows
FlagsWithPromo == {"Sí", " SI ", "yes", "sí"}
FlagsWithoutPromo == {"No", "", NULL}

\* the vocabulary of the promo-presence flag
PromoVocabulary == {"si", "sí", "yes"}

\* the number of rows whose flag is in a set of flags
CountFlags(rows, flags) ==
  Cardinality({i \in 1..Len(rows) : rows[i].presenciaPromociones \in flags})

\* C23: a row counts as having a promo if and only if its promo-presence flag,
\* lowercased and trimmed, is one of "si", "sí", "yes"; every other value, "No",
\* the empty string and a null flag included, counts as no promo and raises no
\* error (so "Sí" and " SI " have promo).
C23_PromoVocabulary ==
  pc = "generatePromoAnalysis" =>
    LET rows == filterData(data, filters) IN
    /\ \A i \in 1..Len(rows) :
         LET flag == rows[i].presenciaPromociones IN
         /\ flag \in FlagsWithPromo \cup FlagsWithoutPromo
         /\ flag \in FlagsWithPromo
              <=> (flag # NULL /\ trim(toLowerCase(flag)) \in PromoVocabulary)
    /\ analysis.withPromoCount = CountFlags(rows, FlagsWithPromo)
    /\ analysis.withoutPromoCount = CountFlags(rows, FlagsWithoutPromo)

\* a row flagged " SI " counted with promo next to a row with a null flag
\* counted without
C23_Witness ==
  /\ pc = "generatePromoAnalysis"
  /\ CountFlags(filterData(data, filters), {" SI "}) = 1
  /\ CountFlags(filterData(data, filters), {NULL}) = 1
  /\ analysis.withPromoCount = 1
  /\ analysis.withoutPromoCount = 1

-----------------------------------------------------------------------------
(* C24 *)

\* the recurring percentages (in hundredths) of the rows that have a promo and
\* a value that is neither null nor zero nor positive
RecurringDiscounts(rows) ==
  LET Qualifies(row) == /\ row.presenciaPromociones \in FlagsWithPromo
                        /\ row.porcentajePromocionRecurrente # NullNumber
                        /\ ValueOf(row.porcentajePromocionRecurrente) < 0
  IN MapSeq(SelectSeq(rows, Qualifies), PorcentajePromocionRecurrente)

\* C24: avgRecurringPromoPercent is the average of the absolute values of
\* porcentajePromocionRecurrente, times 100, over the rows that have a promo and
\* whose value is non-null and strictly negative; rows without promo and rows
\* with a zero or positive percentage never contribute, and the result is 0 when
\* no row qualifies.
C24_RecurringDiscountAverage ==
  pc = "generatePromoAnalysis" =>
    LET percents == RecurringDiscounts(filterData(data, filters))
        avg == analysis.avgRecurringPromoPercent
    IN /\ avg.den # 0
       /\ IF Len(percents) = 0 THEN avg.num = 0
          ELSE avg.num * Len(percents) = SumOfMagnitudes(percents) * avg.den

\* a row with a promo and a discount of 0.5 next to a row without promo that
\* holds a discount of 0.2: the average is 50
C24_Witness ==
  /\ pc = "generatePromoAnalysis"
  /\ Len(filterData(data, filters)) = 2
  /\ \E i \in 1..2 :
       /\ filterData(data, filters)[i].presenciaPromociones = ""
       /\ filterData(data, filters)[i].porcentajePromocionRecurrente = Number(-20)
  /\ Len(RecurringDiscounts(filterData(data, filters))) = 1
  /\ analysis.avgRecurringPromoPercent = [num |-> 50, den |-> 1]

-----------------------------------------------------------------------------
(* C25 *)

-----------------------------------------------------------------------------
(* C26 *)

\* C26: the record count shown in the dashboard (totalRecords) equals the
\* number of rows that match all the active filters, the length of
\* filterData(data, filters), in every filter state, those with a kit-size
\* filter set included.
C26_TotalRecordsIsFilteredCount ==
  totalRecords(data, filters) = Len(filterData(data, filters))

-----------------------------------------------------------------------------
(* C27 *)

\* the number of rows of a group whose price is positive
PositiveCount(rows, PriceOf(_)) ==
  Cardinality({i \in 1..Len(rows) : PriceOf(rows[i]) > 0})

\* C27: for price type alta the base and the promo array of a group are
\* filtered independently of each other: each keeps as many values as the group
\* has rows with a positive price of its own kind. A group whose promo values
\* are all zero while a base value is positive is therefore emitted, with the
\* all-zero sentinel and no values as its promo statistics and a percentageDiff
\* of exactly -100. For price type recurrente base.values and promo.values have
\* the same length, the number of rows in the group.
C27_IndependentFiltering ==
  pc = "generateBoxplotComparisons" =>
    /\ \A j \in 1..Len(comparisons) :
         LET c == comparisons[j]
             own == GroupRows(c.label)
         IN IF priceType = "alta"
            THEN /\ Len(c.base.values) = PositiveCount(own, BasePriceOf)
                 /\ Len(c.promo.values) = PositiveCount(own, PromoPriceOf)
            ELSE /\ Len(c.base.values) = Len(own)
                 /\ Len(c.promo.values) = Len(own)
    /\ priceType = "alta" =>
         \A g \in GroupLabels :
           /\ PositiveCount(GroupRows(g), BasePriceOf) > 0
           /\ \A i \in 1..Len(GroupRows(g)) : PromoPriceOf(GroupRows(g)[i]) = 0
           => \E j \in 1..Len(comparisons) :
                /\ comparisons[j].label = g
                /\ comparisons[j].promo = ZeroStats
                /\ comparisons[j].promo.values = <<>>
                /\ comparisons[j].percentageDiff.den # 0
                /\ comparisons[j].percentageDiff.num
                     = (0 - 100) * comparisons[j].percentageDiff.den

\* price type alta and a group of two rows, both with a positive base price and
\* a promo price of zero: emitted with two base values and no promo value
C27_Witness ==
  /\ pc = "generateBoxplotComparisons"
  /\ priceType = "alta"
  /\ \E j \in 1..Len(comparisons) :
       /\ Len(GroupRows(comparisons[j].label)) = 2
       /\ \A i \in 1..2 : PromoPriceOf(GroupRows(comparisons[j].label)[i]) = 0
       /\ Len(comparisons[j].base.values) = 2
       /\ comparisons[j].promo = ZeroStats
       /\ comparisons[j].percentageDiff.num = (0 - 100) * comparisons[j].percentageDiff.den

-----------------------------------------------------------------------------
(* C28 *)

\* the counts of the entries of a per-competitor analysis
WithPromoCounts(entries) ==
  [j \in 1..Len(entries) |-> entries[j].analysis.withPromoCount]
WithoutPromoCounts(entries) ==
  [j \in 1..Len(entries) |-> entries[j].analysis.withoutPromoCount]
TotalCounts(entries) ==
  [j \in 1..Len(entries) |-> entries[j].analysis.totalCount]

\* C28: the per-competitor promo analysis partitions the filtered rows: summed
\* over the entries of generatePromoAnalysisByCompetitor, withPromoCount,
\* withoutPromoCount and totalCount equal the counts that generatePromoAnalysis
\* returns for the same data and filters.
C28_CountsSumToOverall ==
  pc = "generatePromoAnalysisByCompetitor" =>
    LET overall == generatePromoAnalysis(data, filters) IN
    /\ SumSeq(WithPromoCounts(analysisByCompetitor)) = overall.withPromoCount
    /\ SumSeq(WithoutPromoCounts(analysisByCompetitor)) = overall.withoutPromoCount
    /\ SumSeq(TotalCounts(analysisByCompetitor)) = overall.totalCount

\* a filter on the country, two competitors of that country, one with a promo
\* and one without: two entries whose counts add up to the overall 1, 1 and 2
C28_Witness ==
  /\ pc = "generatePromoAnalysisByCompetitor"
  /\ IsSet(filters.pais)
  /\ Len(analysisByCompetitor) = 2
  /\ analysisByCompetitor[1].analysis.withPromoCount
       # analysisByCompetitor[2].analysis.withPromoCount
  /\ generatePromoAnalysis(data, filters).withPromoCount = 1
  /\ generatePromoAnalysis(data, filters).withoutPromoCount = 1
  /\ generatePromoAnalysis(data, filters).totalCount = 2

-----------------------------------------------------------------------------
(* C29 *)

\* C29: for a non-empty V of length n the indices floor(n * 0.25),
\* floor(n * 0.5) and floor(n * 0.75) lie in 0..n-1, so that min, q1, median,
\* q3 and max are each an element of V; the returned values are a permutation of
\* V (the same multiplicities) in ascending order; for n = 1 the five statistics
\* all equal the single value.
C29_StatisticsAreElements ==
  (pc = "calculateBoxplotStats" /\ Len(values) >= 1) =>
    LET n == Len(values) IN
    /\ \A percent \in {25, 50, 75} : FloorTimes(n, percent) \in 0..(n - 1)
    /\ {stats.min, stats.q1, stats.median, stats.q3, stats.max} \subseteq SeqRange(values)
    /\ SameBag(stats.values, values)
    /\ SortedAscending(stats.values)
    /\ n = 1 => {stats.min, stats.q1, stats.median, stats.q3, stats.max} = {values[1]}

\* four values with a repeated one, out of order, whose two middle values
\* differ: the median is the upper one and the repetition is kept
C29_Witness ==
  /\ pc = "calculateBoxplotStats"
  /\ values = <<30, 10, 40, 10>>
  /\ stats.values = <<10, 10, 30, 40>>
  /\ stats.median = 30
  /\ stats.q3 = 40

-----------------------------------------------------------------------------
(* C30 *)

\* the sequences that hold the elements of s in another order
RowOrders(s) ==
  {[i \in 1..Len(s) |-> s[p[i]]] :
     p \in {q \in [1..Len(s) -> 1..Len(s)] : \A i, j \in 1..Len(s) : q[i] = q[j] => i = j}}

\* C30: the result of generateBoxplotComparisons does not depend on the order
\* of the rows: for every permutation of the rows and the same filters, price
\* type and currency it has the same labels in the same order and, for each
\* label, the same min, q1, median, q3, max, mean (as an exact number), values
\* and percentageDiff.
C30_RowOrderIrrelevant ==
  pc = "generateBoxplotComparisons" =>
    \A rows \in RowOrders(data) :
      generateBoxplotComparisons(rows, filters, priceType, currency) = comparisons

\* two different rows of one group whose base prices are held in descending
\* order, so that the other order of the rows is another input
C30_Witness ==
  /\ pc = "generateBoxplotComparisons"
  /\ Len(data) = 2
  /\ data[1] # data[2]
  /\ Len(comparisons) = 1
  /\ Len(GroupRows(comparisons[1].label)) = 2
  /\ BasePriceOf(data[1]) > BasePriceOf(data[2])
  /\ comparisons[1].base.values = <<BasePriceOf(data[2]), BasePriceOf(data[1])>>

=============================================================================
